---- MODULE Spec2Model ----
(***************************************************************************)
(* Model of hat_au.py (Hotkey Text Augmentation Utility).                  *)
(*                                                                         *)
(* Three threads of control:                                               *)
(*   - the main thread runs the __main__ block (startup) and then blocks   *)
(*     in the tray loop;                                                   *)
(*   - the tray thread runs the menu callbacks (update_selected_model,     *)
(*     on_exit_clicked);                                                   *)
(*   - the hotkey-listener thread runs perform_action, one invocation at   *)
(*     a time (the key-binding library is taken to deliver invocations     *)
(*     serially).                                                          *)
(* Every call into the OS (clipboard, simulated keys) or the remote        *)
(* service is one step that either succeeds or raises; closing a client    *)
(* (client.close(), loop.close()) is taken not to raise.  The clipboard is *)
(* written by this program and by the focused application's reaction to   *)
(* the simulated copy only.  The remote catalog holds real identifiers:    *)
(* distinct, non-empty and different from the placeholder.                 *)
(*                                                                         *)
(* Text is a sequence of one-character strings; Python's None is the       *)
(* record None below, a present value s is Some(s).                        *)
(***************************************************************************)
EXTENDS Naturals, Sequences, FiniteSets

(* ---------------------------------------------------------------- bounds *)

\* longest completion stream, in fragments
MaxFrags == 2

(* ------------------------------------------------------------- constants *)

DEFAULT_MODELS == <<"llama3.1-8b", "llama3.1-70b">>

PLACEHOLDER == "no_model_available_placeholder"

\* value of a per-action record that has not been written yet
Unset == "-"

(* ----------------------------------------------------------------- values *)

None == [none |-> TRUE, val |-> <<>>]

Some(s) == [none |-> FALSE, val |-> s]

\* Python truthiness of an optional string
Truthy(o) == ~o.none /\ o.val # <<>>

\* `x or ""`
OrEmpty(o) == IF Truthy(o) THEN o.val ELSE <<>>

Whitespace == {" "}

\* `not s.strip()`
IsBlank(s) == \A i \in 1..Len(s) : s[i] \in Whitespace

Range(s) == {s[i] : i \in 1..Len(s)}

(* ------------------------------------------------------ environment inputs *)

\* CEREBRAS_API_KEY in the process environment: unset, set to "", set
EnvKeys == {None, Some(<<>>), Some(<<"k">>)}

\* what the clipboard may hold when the program starts
InitialClipboards == {<<>>, <<"h">>}

\* what is selected in the focused application at a hotkey press
Selections == {<<>>, <<"s">>}

\* model catalogs the remote service may return
Catalogs == {<<>>, <<"m1">>, <<"m1", "m2">>}

\* chunk.choices[0].delta.content of one streamed chunk
FragContents == {None, Some(<<" ">>), Some(<<"a">>)}

(* ------------------------------------------------------------------ state *)

VARIABLES
    envKey,             \* os.environ.get("CEREBRAS_API_KEY")
    clipboard,          \* the system clipboard
    mainPc,             \* position of the main thread in __main__
    exited,             \* the process has terminated
    exitStatus,         \* its exit status, once it has
    available_models,
    current_model_name,
    modelsClient,       \* client of get_available_models: "none" | "open" | "closed"
    modelsResult,       \* value get_available_models is about to return
    fetchFailed,        \* the catalog request raised
    listCalled,         \* the catalog request was made
    hotkeyRegistered,
    trayRunning,
    menu,               \* icon.menu
    startupLog,         \* startup steps, in the order they happened
    reselected,         \* a menu click chose the model already selected
    pc,                 \* position of the listener thread in perform_action
    selection,          \* what is selected in the focused application
    original_clipboard_content,
    selected_text,
    full_response_content,
    api_response,
    completionClient,   \* client of get_cerebras_completion
    requested,          \* model this action's completion request was made with
    clipAtCall,         \* clipboard when get_selected_text was entered
    gstFail,            \* first step of get_selected_text that raised
    readEmpty,          \* the read after the simulated copy returned ""
    restoreOk,          \* a restoring clipboard write succeeded
    gstPath,            \* how get_selected_text returned: "text" | "empty" | "error"
    valModel,           \* model read by the validation of this action
    reqModel,           \* model passed to get_cerebras_completion by this action
    frags,              \* fragments received on this action's stream
    streamEnd,          \* "ended" | "failed" | Unset
    keys,               \* simulated key events of this action
    pasted,             \* clipboard contents at each simulated paste of this action
    outcome             \* how this action ended, Unset while it runs

procVars == <<envKey, mainPc, exited, exitStatus>>
startVars == <<available_models, modelsClient, modelsResult, fetchFailed,
               listCalled, hotkeyRegistered, trayRunning, menu, startupLog>>
gstVars == <<original_clipboard_content, clipAtCall, gstFail, readEmpty,
             restoreOk, gstPath>>
complVars == <<full_response_content, api_response, completionClient, requested,
               reqModel, frags, streamEnd>>
actVars == <<pc, selection, selected_text, valModel, keys, pasted, outcome,
             gstVars, complVars>>
vars == <<procVars, startVars, actVars, clipboard, current_model_name, reselected>>

alive == ~exited

Init ==
    /\ envKey \in EnvKeys
    /\ clipboard \in InitialClipboards
    /\ mainPc = "check_api_key"
    /\ exited = FALSE
    /\ exitStatus = 0
    /\ available_models = <<>>
    /\ current_model_name = ""
    /\ modelsClient = "none"
    /\ modelsResult = <<>>
    /\ fetchFailed = FALSE
    /\ listCalled = FALSE
    /\ hotkeyRegistered = FALSE
    /\ trayRunning = FALSE
    /\ menu = <<>>
    /\ startupLog = <<>>
    /\ reselected = FALSE
    /\ pc = "idle"
    /\ selection = <<>>
    /\ original_clipboard_content = <<>>
    /\ selected_text = None
    /\ full_response_content = <<>>
    /\ api_response = None
    /\ completionClient = "none"
    /\ requested = Unset
    /\ clipAtCall = <<>>
    /\ gstFail = Unset
    /\ readEmpty = FALSE
    /\ restoreOk = FALSE
    /\ gstPath = Unset
    /\ valModel = Unset
    /\ reqModel = Unset
    /\ frags = <<>>
    /\ streamEnd = Unset
    /\ keys = <<>>
    /\ pasted = <<>>
    /\ outcome = Unset

(* ---------------------------------------------------------------- startup *)

\* mutant: only an unset variable is rejected, an empty one accepted
KeyMissingNoneOnly(k) == k.none

\* `if not api_key`
KeyMissing(k) == ~Truthy(k)

check_api_key ==
    /\ alive /\ mainPc = "check_api_key"
    /\ IF KeyMissing(envKey)
       THEN /\ exited' = TRUE
            /\ exitStatus' = 1
            /\ mainPc' = "exited"
            /\ startupLog' = startupLog
       ELSE /\ UNCHANGED <<exited, exitStatus>>
            /\ mainPc' = "models_open"
            /\ startupLog' = Append(startupLog, "credential")
    /\ UNCHANGED <<envKey, available_models, modelsClient, modelsResult, fetchFailed,
                   listCalled, hotkeyRegistered, trayRunning, menu,
                   actVars, clipboard, current_model_name, reselected>>

ModelsOpen ==
    /\ alive /\ mainPc = "models_open"
    /\ modelsClient' = "open"
    /\ mainPc' = "models_list"
    /\ UNCHANGED <<envKey, exited, exitStatus, available_models, modelsResult, fetchFailed,
                   listCalled, hotkeyRegistered, trayRunning, menu, startupLog,
                   actVars, clipboard, current_model_name, reselected>>

ModelsListOk ==
    /\ alive /\ mainPc = "models_list"
    /\ \E c \in Catalogs : modelsResult' = c
    /\ listCalled' = TRUE
    /\ mainPc' = "models_close"
    /\ UNCHANGED <<envKey, exited, exitStatus, available_models, modelsClient, fetchFailed,
                   hotkeyRegistered, trayRunning, menu, startupLog,
                   actVars, clipboard, current_model_name, reselected>>

\* mutant: a failed fetch returns no models
FetchFallbackEmpty == <<>>

FetchFallback == DEFAULT_MODELS

ModelsListFail ==
    /\ alive /\ mainPc = "models_list"
    /\ modelsResult' = FetchFallback
    /\ fetchFailed' = TRUE
    /\ listCalled' = TRUE
    /\ mainPc' = "models_close"
    /\ UNCHANGED <<envKey, exited, exitStatus, available_models, modelsClient,
                   hotkeyRegistered, trayRunning, menu, startupLog,
                   actVars, clipboard, current_model_name, reselected>>

ModelsClose ==
    /\ alive /\ mainPc = "models_close"
    /\ modelsClient' = "closed"
    /\ available_models' = modelsResult
    /\ startupLog' = Append(startupLog, "fetch")
    /\ mainPc' = "set_default"
    /\ UNCHANGED <<envKey, exited, exitStatus, modelsResult, fetchFailed, listCalled,
                   hotkeyRegistered, trayRunning, menu,
                   actVars, clipboard, current_model_name, reselected>>

\* mutant: the placeholder is taken whether or not models are known
DefaultModelPlaceholder(models) == PLACEHOLDER

DefaultModel(models) == IF models # <<>> THEN models[1] ELSE PLACEHOLDER

SetDefault ==
    /\ alive /\ mainPc = "set_default"
    /\ current_model_name' = DefaultModel(available_models)
    /\ startupLog' = Append(startupLog, "default")
    /\ mainPc' = "add_hotkey"
    /\ UNCHANGED <<envKey, exited, exitStatus, available_models, modelsClient, modelsResult,
                   fetchFailed, listCalled, hotkeyRegistered, trayRunning, menu,
                   actVars, clipboard, reselected>>

\* mutant: the hotkey is registered before the default model is set
AddHotkeyBeforeDefault ==
    /\ alive /\ mainPc = "set_default" /\ ~hotkeyRegistered
    /\ hotkeyRegistered' = TRUE
    /\ startupLog' = Append(startupLog, "hotkey")
    /\ UNCHANGED <<procVars, available_models, modelsClient, modelsResult,
                   fetchFailed, listCalled, trayRunning, menu,
                   actVars, clipboard, current_model_name, reselected>>

AddHotkey ==
    /\ alive /\ mainPc = "add_hotkey"
    /\ hotkeyRegistered' = TRUE
    /\ startupLog' = Append(startupLog, "hotkey")
    /\ mainPc' = "start_systray"
    /\ UNCHANGED <<envKey, exited, exitStatus, available_models, modelsClient, modelsResult,
                   fetchFailed, listCalled, trayRunning, menu,
                   actVars, clipboard, current_model_name, reselected>>

(* ------------------------------------------------------------------- tray *)

ExitItem == [text |-> "Exit", enabled |-> TRUE, radio |-> FALSE]

create_systray_menu(models) ==
    (IF models = <<>>
     THEN <<[text |-> "No models available", enabled |-> FALSE, radio |-> FALSE]>>
     ELSE [i \in 1..Len(models) |->
              [text |-> models[i], enabled |-> TRUE, radio |-> TRUE]])
    \o <<ExitItem>>

\* the `checked` callback of a menu entry
Checked(item) == item.radio /\ current_model_name = item.text

start_systray ==
    /\ alive /\ mainPc = "start_systray"
    /\ menu' = create_systray_menu(available_models)
    /\ trayRunning' = TRUE
    /\ startupLog' = Append(startupLog, "tray")
    /\ mainPc' = "tray_loop"
    /\ UNCHANGED <<envKey, exited, exitStatus, available_models, modelsClient, modelsResult,
                   fetchFailed, listCalled, hotkeyRegistered,
                   actVars, clipboard, current_model_name, reselected>>

SelectedAfterClick(model_name) == model_name

update_selected_model ==
    /\ alive /\ trayRunning
    /\ \E i \in 1..Len(menu) :
          /\ menu[i].enabled /\ menu[i].radio
          /\ current_model_name' = SelectedAfterClick(menu[i].text)
          /\ reselected' = (reselected \/ current_model_name = menu[i].text)
    /\ UNCHANGED <<procVars, startVars, actVars, clipboard>>

on_exit_clicked ==
    /\ alive /\ trayRunning
    /\ \E i \in 1..Len(menu) : menu[i] = ExitItem
    /\ trayRunning' = FALSE
    /\ exited' = TRUE
    /\ exitStatus' = 0
    /\ UNCHANGED <<envKey, mainPc, available_models, modelsClient, modelsResult,
                   fetchFailed, listCalled, hotkeyRegistered, menu, startupLog,
                   actVars, clipboard, current_model_name, reselected>>

(* --------------------------------------------- perform_action: the capture *)

\* endings of an action that follow an exception or a failed remote call
FailureOutcomes == {"capture_error", "context_error", "stream_error", "emit_error"}


HotkeyPress ==
    /\ alive /\ hotkeyRegistered /\ pc = "idle"
    /\ \E sel \in Selections : selection' = sel
    /\ pc' = "gst_read1"
    /\ original_clipboard_content' = <<>>
    /\ clipAtCall' = clipboard
    /\ gstFail' = Unset
    /\ readEmpty' = FALSE
    /\ restoreOk' = FALSE
    /\ gstPath' = Unset
    /\ selected_text' = None
    /\ valModel' = Unset
    /\ reqModel' = Unset
    /\ full_response_content' = <<>>
    /\ api_response' = None
    /\ completionClient' = "none"
    /\ frags' = <<>>
    /\ streamEnd' = Unset
    /\ keys' = <<>>
    /\ pasted' = <<>>
    /\ requested' = Unset
    /\ outcome' = Unset
    /\ UNCHANGED <<procVars, startVars, clipboard, current_model_name, reselected>>

\* `original_clipboard_content = pyperclip.paste()`
GstRead1 ==
    /\ alive /\ pc = "gst_read1"
    /\ original_clipboard_content' = clipboard
    /\ pc' = "gst_clear"
    /\ UNCHANGED <<procVars, startVars, clipboard, current_model_name, reselected,
                   selection, selected_text, valModel, keys, pasted, outcome,
                   clipAtCall, gstFail, readEmpty, restoreOk, gstPath, complVars>>

\* `pyperclip.copy("")`
GstClear ==
    /\ alive /\ pc = "gst_clear"
    /\ clipboard' = <<>>
    /\ pc' = "gst_copy"
    /\ UNCHANGED <<procVars, startVars, current_model_name, reselected,
                   selection, selected_text, valModel, keys, pasted, outcome,
                   gstVars, complVars>>

\* `pyautogui.hotkey('ctrl', 'c')` and the delay: the focused application
\* puts its selection, if it has one, on the clipboard
GstCopy ==
    /\ alive /\ pc = "gst_copy"
    /\ keys' = Append(keys, "ctrl+c")
    /\ clipboard' = IF selection # <<>> THEN selection ELSE clipboard
    /\ pc' = "gst_read2"
    /\ UNCHANGED <<procVars, startVars, current_model_name, reselected,
                   selection, selected_text, valModel, pasted, outcome,
                   gstVars, complVars>>

\* `selected_text = pyperclip.paste()` and the test on it
GstRead2 ==
    /\ alive /\ pc = "gst_read2"
    /\ IF clipboard = <<>>
       THEN /\ readEmpty' = TRUE
            /\ pc' = "gst_restore"
            /\ UNCHANGED <<selected_text, gstPath>>
       ELSE /\ selected_text' = Some(clipboard)
            /\ gstPath' = "text"
            /\ pc' = "validate"
            /\ UNCHANGED readEmpty
    /\ UNCHANGED <<procVars, startVars, clipboard, current_model_name, reselected,
                   selection, valModel, keys, pasted, outcome,
                   original_clipboard_content, clipAtCall, gstFail, restoreOk,
                   complVars>>

\* mutant: the restoring writes put the cleared value back
RestoreValueCleared == <<>>

\* what the restoring writes put on the clipboard
RestoreValue == original_clipboard_content

\* `pyperclip.copy(original_clipboard_content); return None`, then the
\* `else` branch of perform_action
GstRestore ==
    /\ alive /\ pc = "gst_restore"
    /\ clipboard' = RestoreValue
    /\ restoreOk' = TRUE
    /\ gstPath' = "empty"
    /\ selected_text' = None
    /\ pc' = "idle"
    /\ outcome' = "no_selection"
    /\ UNCHANGED <<procVars, startVars, current_model_name, reselected,
                   selection, valModel, keys, pasted,
                   original_clipboard_content, clipAtCall, gstFail, readEmpty,
                   complVars>>

\* an OS call of the try block raises
GstRaise ==
    /\ alive
    /\ pc \in {"gst_read1", "gst_clear", "gst_copy", "gst_read2", "gst_restore"}
    /\ gstFail' = pc
    /\ pc' = "gst_except"
    /\ UNCHANGED <<procVars, startVars, clipboard, current_model_name, reselected,
                   selection, selected_text, valModel, keys, pasted, outcome,
                   original_clipboard_content, clipAtCall, readEmpty, restoreOk,
                   gstPath, complVars>>

\* the handler: the restoring write succeeds
GstExceptRestore ==
    /\ alive /\ pc = "gst_except"
    /\ clipboard' = RestoreValue
    /\ restoreOk' = TRUE
    /\ gstPath' = "error"
    /\ selected_text' = None
    /\ pc' = "idle"
    /\ outcome' = "capture_error"
    /\ UNCHANGED <<procVars, startVars, current_model_name, reselected,
                   selection, valModel, keys, pasted,
                   original_clipboard_content, clipAtCall, gstFail, readEmpty,
                   complVars>>

\* the handler: the restoring write raises too
GstExceptRestoreFail ==
    /\ alive /\ pc = "gst_except"
    /\ gstPath' = "error"
    /\ selected_text' = None
    /\ pc' = "idle"
    /\ outcome' = "capture_error"
    /\ UNCHANGED <<procVars, startVars, clipboard, current_model_name, reselected,
                   selection, valModel, keys, pasted,
                   original_clipboard_content, clipAtCall, gstFail, readEmpty,
                   restoreOk, complVars>>

get_selected_text ==
    \/ GstRead1
    \/ GstClear
    \/ GstCopy
    \/ GstRead2
    \/ GstRestore
    \/ GstRaise
    \/ GstExceptRestore
    \/ GstExceptRestoreFail

(* ------------------------------------------ perform_action: the completion *)

\* mutant: only the empty string is rejected
InvalidModelEmptyOnly(m) == m = ""

\* `not current_model_name or current_model_name == "no_model_available_placeholder"`
InvalidModel(m) == m = "" \/ m = PLACEHOLDER

\* `if selected_text:` and the validation of the selected model
Validate ==
    /\ alive /\ pc = "validate" /\ Truthy(selected_text)
    /\ valModel' = current_model_name
    /\ IF InvalidModel(current_model_name)
       THEN pc' = "idle" /\ outcome' = "invalid_model"
       ELSE pc' = "new_loop" /\ UNCHANGED outcome
    /\ UNCHANGED <<procVars, startVars, clipboard, current_model_name, reselected,
                   selection, selected_text, keys, pasted, gstVars, complVars>>

\* `asyncio.new_event_loop(); asyncio.set_event_loop(loop)`
NewLoop ==
    /\ alive /\ pc = "new_loop"
    /\ pc' = "run_completion"
    /\ UNCHANGED <<procVars, startVars, clipboard, current_model_name, reselected,
                   selection, selected_text, valModel, keys, pasted, outcome,
                   gstVars, complVars>>

\* a RuntimeError whose text holds "cannot start a new event loop"
NewLoopBusy ==
    /\ alive /\ pc = "new_loop"
    /\ pc' = "fallback"
    /\ UNCHANGED <<procVars, startVars, clipboard, current_model_name, reselected,
                   selection, selected_text, valModel, keys, pasted, outcome,
                   gstVars, complVars>>

\* mutant: the re-raised exception is not caught and ends the process
ContextRaiseUncaught ==
    /\ alive /\ pc \in {"new_loop", "fallback"}
    /\ exited' = TRUE
    /\ exitStatus' = 1
    /\ outcome' = "context_error"
    /\ UNCHANGED <<envKey, mainPc, startVars, clipboard, current_model_name, reselected,
                   pc, selection, selected_text, valModel, keys, pasted,
                   gstVars, complVars>>

\* any other exception of the inner try block, or one raised by asyncio.run:
\* re-raised to the outer handler of perform_action
ContextRaise ==
    /\ alive /\ pc \in {"new_loop", "fallback"}
    /\ pc' = "idle"
    /\ outcome' = "context_error"
    /\ UNCHANGED <<procVars, startVars, clipboard, current_model_name, reselected,
                   selection, selected_text, valModel, keys, pasted,
                   gstVars, complVars>>

\* the model handed to get_cerebras_completion
RequestModel == current_model_name

\* `get_cerebras_completion(selected_text, current_model_name)` is entered,
\* by loop.run_until_complete or by asyncio.run
RunCompletion ==
    /\ alive /\ pc \in {"run_completion", "fallback"}
    /\ reqModel' = RequestModel
    /\ completionClient' = "open"
    /\ full_response_content' = <<>>
    /\ pc' = "stream_create"
    /\ UNCHANGED <<procVars, startVars, clipboard, current_model_name, reselected,
                   selection, selected_text, valModel, keys, pasted, outcome,
                   gstVars, api_response, requested, frags, streamEnd>>

\* `await client.chat.completions.create(...)`
StreamCreate ==
    /\ alive /\ pc = "stream_create"
    /\ requested' = reqModel
    /\ pc' = "stream_iter"
    /\ UNCHANGED <<procVars, startVars, clipboard, current_model_name, reselected,
                   selection, selected_text, valModel, keys, pasted, outcome,
                   gstVars, full_response_content, api_response, completionClient,
                   reqModel, frags, streamEnd>>

\* the request raises
StreamCreateRaise ==
    /\ alive /\ pc = "stream_create"
    /\ requested' = reqModel
    /\ streamEnd' = "failed"
    /\ api_response' = None
    /\ pc' = "client_close"
    /\ UNCHANGED <<procVars, startVars, clipboard, current_model_name, reselected,
                   selection, selected_text, valModel, keys, pasted, outcome,
                   gstVars, full_response_content, completionClient, reqModel, frags>>

\* mutant: the fragment is put in front of what was accumulated
AccumulatePrepend(full, content) == OrEmpty(content) \o full

\* `full_response_content += (chunk.choices[0].delta.content or "")`
Accumulate(full, content) == full \o OrEmpty(content)

StreamChunk ==
    /\ alive /\ pc = "stream_iter"
    /\ Len(frags) < MaxFrags
    /\ \E c \in FragContents :
          /\ frags' = Append(frags, c)
          /\ full_response_content' = Accumulate(full_response_content, c)
    /\ UNCHANGED <<procVars, startVars, clipboard, current_model_name, reselected,
                   selection, selected_text, valModel, keys, pasted, outcome,
                   gstVars, pc, api_response, completionClient, requested, reqModel,
                   streamEnd>>

\* the value returned once the stream has ended
CompletionResult(full) == IF IsBlank(full) THEN None ELSE Some(full)

StreamEnd ==
    /\ alive /\ pc = "stream_iter"
    /\ streamEnd' = "ended"
    /\ api_response' = CompletionResult(full_response_content)
    /\ pc' = "client_close"
    /\ UNCHANGED <<procVars, startVars, clipboard, current_model_name, reselected,
                   selection, selected_text, valModel, keys, pasted, outcome,
                   gstVars, full_response_content, completionClient, requested,
                   reqModel, frags>>

\* the value returned by the exception handler
FailureResult(full) == None

\* the stream raises between two chunks
StreamRaise ==
    /\ alive /\ pc = "stream_iter"
    /\ streamEnd' = "failed"
    /\ api_response' = FailureResult(full_response_content)
    /\ pc' = "client_close"
    /\ UNCHANGED <<procVars, startVars, clipboard, current_model_name, reselected,
                   selection, selected_text, valModel, keys, pasted, outcome,
                   gstVars, full_response_content, completionClient, requested,
                   reqModel, frags>>

\* `finally: await client.close()`, and the return to perform_action
ClientClose ==
    /\ alive /\ pc = "client_close"
    /\ completionClient' = "closed"
    /\ pc' = "respond"
    /\ UNCHANGED <<procVars, startVars, clipboard, current_model_name, reselected,
                   selection, selected_text, valModel, keys, pasted, outcome,
                   gstVars, full_response_content, api_response, requested,
                   reqModel, frags, streamEnd>>

get_cerebras_completion ==
    \/ StreamCreate
    \/ StreamCreateRaise
    \/ StreamChunk
    \/ StreamEnd
    \/ StreamRaise
    \/ ClientClose

(* ------------------------------------------------ perform_action: the emit *)

\* `if api_response:`
Respond ==
    /\ alive /\ pc = "respond"
    /\ IF Truthy(api_response)
       THEN pc' = "tr_right" /\ UNCHANGED outcome
       ELSE /\ pc' = "idle"
            /\ outcome' = IF streamEnd = "failed" THEN "stream_error" ELSE "no_response"
    /\ UNCHANGED <<procVars, startVars, clipboard, current_model_name, reselected,
                   selection, selected_text, valModel, keys, pasted,
                   gstVars, complVars>>

\* `pyautogui.press('right')`
TrRight ==
    /\ alive /\ pc = "tr_right"
    /\ keys' = Append(keys, "right")
    /\ pc' = "tr_enter"
    /\ UNCHANGED <<procVars, startVars, clipboard, current_model_name, reselected,
                   selection, selected_text, valModel, pasted, outcome,
                   gstVars, complVars>>

\* `pyautogui.press('enter')` and the delay
TrEnter ==
    /\ alive /\ pc = "tr_enter"
    /\ keys' = Append(keys, "enter")
    /\ pc' = "tr_copy"
    /\ UNCHANGED <<procVars, startVars, clipboard, current_model_name, reselected,
                   selection, selected_text, valModel, pasted, outcome,
                   gstVars, complVars>>

\* `pyperclip.copy(api_response)`
TrCopy ==
    /\ alive /\ pc = "tr_copy"
    /\ clipboard' = api_response.val
    /\ pc' = "tr_paste"
    /\ UNCHANGED <<procVars, startVars, current_model_name, reselected,
                   selection, selected_text, valModel, keys, pasted, outcome,
                   gstVars, complVars>>

\* `pyautogui.hotkey('ctrl', 'v')`: the focused application pastes the clipboard
TrPaste ==
    /\ alive /\ pc = "tr_paste"
    /\ keys' = Append(keys, "ctrl+v")
    /\ pasted' = Append(pasted, clipboard)
    /\ pc' = "idle"
    /\ outcome' = "ok"
    /\ UNCHANGED <<procVars, startVars, clipboard, current_model_name, reselected,
                   selection, selected_text, valModel, gstVars, complVars>>

\* an OS call of type_response raises: logged, and type_response returns
TrRaise ==
    /\ alive /\ pc \in {"tr_right", "tr_enter", "tr_copy", "tr_paste"}
    /\ pc' = "idle"
    /\ outcome' = "emit_error"
    /\ UNCHANGED <<procVars, startVars, clipboard, current_model_name, reselected,
                   selection, selected_text, valModel, keys, pasted,
                   gstVars, complVars>>

type_response ==
    \/ TrRight
    \/ TrEnter
    \/ TrCopy
    \/ TrPaste
    \/ TrRaise

\* the steps of a running action
ActionStep ==
    \/ get_selected_text
    \/ Validate
    \/ NewLoop
    \/ NewLoopBusy
    \/ ContextRaise
    \/ RunCompletion
    \/ get_cerebras_completion
    \/ Respond
    \/ type_response

Startup ==
    \/ check_api_key
    \/ ModelsOpen
    \/ ModelsListOk
    \/ ModelsListFail
    \/ ModelsClose
    \/ SetDefault
    \/ AddHotkey
    \/ start_systray

Tray == update_selected_model \/ on_exit_clicked

Next == Startup \/ Tray \/ HotkeyPress \/ ActionStep

Spec == Init /\ [][Next]_vars

\* the listener thread is scheduled as long as the process lives, and every
\* OS or remote call returns or raises
FairSpec == Spec /\ WF_vars(ActionStep)

(* ------------------------------------------------------------------ claims *)

RECURSIVE Concat(_)
\* the in-order concatenation of the fragments' texts, a missing text being empty
Concat(fs) ==
    IF fs = <<>> THEN <<>>
    ELSE (IF Head(fs).none THEN <<>> ELSE Head(fs).val) \o Concat(Tail(fs))

EmitKeys == {"right", "enter", "ctrl+v"}

\* C1: a paste is simulated only after the stream ended normally with a result
\* that is not all whitespace, and what is written to the clipboard and pasted
\* is the in-order concatenation of the stream's fragments (a missing content
\* being empty); when the stream fails after any number of fragments, or yields
\* only empty or whitespace fragments, the completion reports absent, nothing
\* is pasted and no output at all is written.
C1_PasteOnlyWholeResponse ==
    /\ pasted # <<>> =>
          /\ streamEnd = "ended"
          /\ ~IsBlank(Concat(frags))
          /\ pasted = <<Concat(frags)>>
          /\ clipboard = Concat(frags)
    /\ ("ctrl+v" \in Range(keys)) <=> (pasted # <<>>)
    /\ pc = "tr_paste" => clipboard = Concat(frags)
    /\ (streamEnd = "failed" \/ (streamEnd = "ended" /\ IsBlank(Concat(frags)))) =>
          /\ api_response = None
          /\ pasted = <<>>
          /\ Range(keys) \cap EmitKeys = {}
          /\ clipboard = selected_text.val
          /\ pc \in {"client_close", "respond", "idle"}

C1_Witness ==
    /\ pasted # <<>>
    /\ Len(frags) = 2
    /\ frags[1] = Some(<<" ">>)
    /\ frags[2] = Some(<<"a">>)
    /\ outcome = "ok"

\* C2: when the model read by the validation is the empty string or the
\* placeholder, the action has ended there without a completion client, a
\* completion request or a paste; and no completion request is ever made with
\* the empty string or the placeholder as its model.
C2_NoRequestWithInvalidModel ==
    /\ requested \notin {"", PLACEHOLDER}
    /\ valModel \in {"", PLACEHOLDER} =>
          /\ pc = "idle"
          /\ outcome = "invalid_model"
          /\ reqModel = Unset
          /\ requested = Unset
          /\ completionClient = "none"
          /\ pasted = <<>>
          /\ Range(keys) \cap EmitKeys = {}

C2_Witness ==
    /\ valModel = PLACEHOLDER
    /\ Truthy(selected_text)
    /\ outcome = "invalid_model"
    /\ pc = "idle"

\* what get_selected_text guarantees when the read after the copy is not empty
CaptureReturnsClipboard ==
    (pc = "validate" /\ gstPath = "text") =>
        /\ Truthy(selected_text)
        /\ selected_text = Some(clipboard)
        /\ clipboard = selection

C4_RestoredAfterFailure ==
    (pc = "idle" /\ gstPath = "error"
        /\ gstFail \in {"gst_read1", "gst_clear", "gst_copy", "gst_read2"}) =>
        /\ selected_text = None
        /\ Len(keys) <= 1
        /\ restoreOk => clipboard = clipAtCall

\* C5: the dispatcher leaves idle only by a hotkey press and returns to idle
\* only by ending the action; no step of an action terminates the process;
\* every started action ends (the process not being exited meanwhile); and
\* whenever the dispatcher is idle in a live process a hotkey press starts a
\* new action.
C5_ActionAlwaysEnds ==
    /\ [][ /\ (pc = "idle" /\ pc' # "idle") =>
                (pc' = "gst_read1" /\ hotkeyRegistered /\ ~exited /\ outcome' = Unset)
           /\ (pc # "idle" /\ pc' = "idle") => outcome' # Unset
           /\ (pc' # pc \/ outcome' # outcome) => (exited' = exited /\ ~exited)
         ]_vars
    /\ (pc # "idle") ~> (pc = "idle" \/ exited)
    /\ [](pc = "idle" /\ hotkeyRegistered /\ ~exited => ENABLED HotkeyPress)

C5_Witness ==
    /\ outcome \in FailureOutcomes
    /\ pc = "idle"
    /\ ~exited
    /\ ENABLED HotkeyPress

IsPrefix(s, t) == Len(s) <= Len(t) /\ \A i \in 1..Len(s) : s[i] = t[i]

\* C6 as claimed: the startup steps happen in the order credential, fetch,
\* default, tray, hotkey; the hotkey is registered only after the tray loop
\* was started and never before the default model was set.
C6_Original ==
    /\ IsPrefix(startupLog, <<"credential", "fetch", "default", "tray", "hotkey">>)
    /\ hotkeyRegistered => "tray" \in Range(startupLog)
    /\ hotkeyRegistered => "default" \in Range(startupLog)

\* C6 as amended: the startup steps happen in the order credential, fetch,
\* default, hotkey, tray; the tray loop is started only after the hotkey was
\* registered, and the hotkey never before the default model was set.
C6_HotkeyBeforeTray ==
    /\ IsPrefix(startupLog, <<"credential", "fetch", "default", "hotkey", "tray">>)
    /\ hotkeyRegistered <=> "hotkey" \in Range(startupLog)
    /\ trayRunning => "tray" \in Range(startupLog)
    /\ "tray" \in Range(startupLog) => hotkeyRegistered
    /\ hotkeyRegistered =>
          /\ "default" \in Range(startupLog)
          /\ current_model_name # ""
          /\ modelsClient = "closed"

C6_Witness ==
    startupLog = <<"credential", "fetch", "default", "hotkey", "tray">>

CheckedEntries == {i \in 1..Len(menu) : Checked(menu[i])}

\* C7: once startup has set the default, and after any menu selections, the
\* selected model is one of the known models when there are any and the
\* placeholder exactly when there are none; of the menu's entries exactly the
\* one naming the selected model is checked (none when no model is known).
C7_SelectedIsKnown ==
    "default" \in Range(startupLog) =>
        /\ available_models # <<>> => current_model_name \in Range(available_models)
        /\ (current_model_name = PLACEHOLDER) <=> (available_models = <<>>)
        /\ menu # <<>> =>
              /\ Cardinality(CheckedEntries) = IF available_models = <<>> THEN 0 ELSE 1
              /\ \A i \in 1..Len(menu) :
                    (menu[i].text = current_model_name) <=> (i \in CheckedEntries)

C7_Witness ==
    /\ reselected
    /\ Len(available_models) = 2
    /\ current_model_name = available_models[2]
    /\ CheckedEntries = {2}

\* C8: an action reads the selected model once, at its start: the model its
\* completion request is made with is the model its validation read.
C8_OneModelPerAction ==
    reqModel # Unset => reqModel = valModel

\* C9: with the credential variable absent or empty the process ends with
\* status 1, and no remote call was made, no client opened, no tray loop
\* started, no hotkey registered and no action run.
C9_MissingKeyExits ==
    (envKey.none \/ envKey.val = <<>>) =>
        /\ ~listCalled
        /\ modelsClient = "none"
        /\ completionClient = "none"
        /\ ~trayRunning
        /\ ~hotkeyRegistered
        /\ startupLog = <<>>
        /\ pc = "idle" /\ outcome = Unset
        /\ mainPc \in {"check_api_key", "exited"}
        /\ mainPc = "exited" <=> (exited /\ exitStatus = 1)

C9_Witness ==
    /\ envKey = None
    /\ exited
    /\ exitStatus = 1

\* C10: when the catalog request fails, get_available_models returns the
\* two-element fallback list, the available models are that list and the
\* default model is its first element; the client is closed when
\* get_available_models returns, whether the request failed or not.
C10_FallbackOnFetchFailure ==
    /\ fetchFailed =>
          /\ modelsResult = <<"llama3.1-8b", "llama3.1-70b">>
          /\ mainPc \in {"set_default", "add_hotkey", "start_systray", "tray_loop"} =>
                available_models = <<"llama3.1-8b", "llama3.1-70b">>
          /\ mainPc = "add_hotkey" => current_model_name = "llama3.1-8b"
    /\ mainPc \in {"set_default", "add_hotkey", "start_systray", "tray_loop"} =>
          (modelsClient = "closed" /\ available_models = modelsResult)
    /\ mainPc \in {"check_api_key", "models_open", "exited"} => modelsClient = "none"

C10_Witness ==
    /\ fetchFailed
    /\ mainPc = "add_hotkey"
    /\ modelsClient = "closed"

====
